---- MODULE Spec2Model ----
(***************************************************************************)
(* The fun_time attribute macro (fun_time_derive/src/lib.rs).              *)
(*                                                                         *)
(* The first half models one expansion of the macro: the attribute         *)
(* arguments are parsed into FunTimeArgs, the constraints are checked in   *)
(* the order the function body checks them, and either a compile error     *)
(* (a set of diagnostics) or a function definition is produced.            *)
(*                                                                         *)
(* The second half interprets the statements of the produced function      *)
(* body, one statement per step, so that what a call of the generated      *)
(* function does (notifications, timestamps, returned value) follows from  *)
(* the token stream the macro built and not from a description of it.      *)
(***************************************************************************)
EXTENDS Integers, Sequences, FiniteSets, TLC

\* Bounds of the model.
MaxValue == 1        \* parameter values are 0..MaxValue
MaxBodyTime == 1     \* a body invocation takes 0..MaxBodyTime clock ticks
MaxCalls == 2        \* calls made to the generated function

VARIABLES
    rawArgs,          \* the attribute arguments as written (input)
    item,             \* the annotated item (input)
    debug_assertions, \* cfg!(debug_assertions) of the build (input)
    feature_log,      \* cfg(feature = "log") of fun_time_derive (input)
    pc,               \* position inside fun_time
    args,             \* FunTimeArgs once parsed
    diagnostics,      \* compile errors returned (set of error kinds)
    emitted,          \* function definitions returned (0 or 1 element)
    call,             \* the running call of the generated function
    clock,            \* the monotonic clock behind Instant::now()
    trace,            \* what the running call did, in order
    calls             \* number of calls started

vars == <<rawArgs, item, debug_assertions, feature_log, pc, args, diagnostics,
          emitted, call, clock, trace, calls>>

inputVars == <<rawArgs, item, debug_assertions, feature_log>>
runVars == <<call, clock, trace, calls>>

----------------------------------------------------------------------------
\* Options and strings

None == [some |-> FALSE, val |-> <<>>]
Some(v) == [some |-> TRUE, val |-> v]

\* A string is a sequence of chunks; a message template is a sequence of
\* segments: literal text, {x} or {x:#?}.
Lit(s) == [kind |-> "lit", text |-> s]
Disp == [kind |-> "disp", text |-> "x"]
Alt == [kind |-> "alt", text |-> "x"]

Digits == <<"0", "1", "2", "3", "4", "5", "6", "7", "8", "9">>

RECURSIVE ToDecimal(_)
ToDecimal(n) ==
    IF n < 10 THEN <<Digits[n + 1]>>
    ELSE ToDecimal(n \div 10) \o <<Digits[(n % 10) + 1]>>

\* The default rendering of the parameter: its decimal digits.
Display(v) == ToDecimal(v)

\* The alternate ({:#?}) rendering, as the Debug impl of the tests'
\* Parameter writes it when f.alternate() holds.
Alternate(v) == <<"value * 2 = ">> \o ToDecimal(v * 2)

\* format!(template) evaluated against the parameter x. Reading a moved
\* parameter is rejected by the borrow checker: it has no value.
RECURSIVE Format(_, _)
Format(template, x) ==
    IF template = <<>> THEN <<>>
    ELSE LET seg == Head(template)
             out == CASE seg.kind = "lit" -> <<seg.text>>
                      [] seg.kind = "disp" -> Display(x.value)
                      [] seg.kind = "alt" -> Alternate(x.value)
         IN out \o Format(Tail(template), x)

\* {:.2?} of a Duration.
FormatElapsed(d) == ToDecimal(d) \o <<".00ticks">>

----------------------------------------------------------------------------
\* Inputs

Templates == { <<>>,
               <<Lit("Value: "), Disp>>,
               <<Lit("fun: "), Alt>> }

MessageLits == {None} \cup {Some(t) : t \in Templates}
WhenLits == {"absent", "always", "debug", "release"}
ReportingLits == {"absent", "println", "log", "print", "stderr"}
LevelLits == {"absent", "trace", "debug", "info", "warn", "error", "loud"}

\* The attribute arguments as written. syntax_ok is FALSE when the tokens
\* are no syn::AttributeArgs at all; unknown_key when a key is written that
\* FunTimeArgs has no field for.
RawArgs ==
    [syntax_ok : BOOLEAN, message : MessageLits, when : WhenLits,
     give_back : BOOLEAN, reporting : ReportingLits, level : LevelLits,
     unknown_key : BOOLEAN]

\* A statement of a function body. `fmt` is a format string (chunks, with
\* "{message}" and "{elapsed}" standing for the two interpolated variables),
\* `ty` a type annotation, `block` the statements of a nested closure body.
Stmt(op, macro, fmt, ty, block) ==
    [op |-> op, macro |-> macro, fmt |-> fmt, ty |-> ty, block |-> block]

\* The statements the user wrote, taken as one opaque step.
OriginalBlock == Stmt("block", "", <<>>, <<>>, <<>>)

\* The annotated item: a function with or without a declared return type,
\* or something that is no function.
Items ==
    { [is_fn |-> TRUE, vis |-> "pub", ident |-> "f", inputs |-> <<"x">>,
       output |-> None, block |-> <<OriginalBlock>>],
      [is_fn |-> TRUE, vis |-> "pub", ident |-> "f", inputs |-> <<"x">>,
       output |-> Some(<<"i32">>), block |-> <<OriginalBlock>>],
      [is_fn |-> FALSE, vis |-> "pub", ident |-> "S", inputs |-> <<>>,
       output |-> None, block |-> <<>>] }

----------------------------------------------------------------------------
\* Argument parsing

Ok(v) == [ok |-> TRUE, val |-> v]
Err(e) == [ok |-> FALSE, val |-> e]

ErrorOf(result) == IF result.ok THEN {} ELSE {result.val}

\* When::from_lit
WhenFromLit(literal) ==
    CASE literal = "always" -> Ok("Always")
      [] literal = "debug" -> Ok("Debug")
      [] OTHER -> Err("when_unsupported")

\* impl Default for When
WhenDefault == "Always"

\* Mutant: the console literal is spelled `print`.
ReportingFromLit_Print(literal, log) ==
    CASE literal = "print" -> Ok("Println")
      [] literal = "log" /\ log -> Ok("Log")
      [] OTHER -> Err("reporting_unsupported")

\* Mutant: the "log" arm is compiled in without the log feature too.
ReportingFromLit_LogWithoutFeature(literal, log) ==
    CASE literal = "println" -> Ok("Println")
      [] literal = "log" -> Ok("Log")
      [] OTHER -> Err("reporting_unsupported")

\* Reporting::from_lit; the "log" arm exists only with the log feature.
ReportingFromLit(literal, log) ==
    CASE literal = "println" -> Ok("Println")
      [] literal = "log" /\ log -> Ok("Log")
      [] OTHER -> Err("reporting_unsupported")

\* impl Default for Reporting, one body per cfg.
ReportingDefault(log) == IF log THEN "Log" ELSE "Println"

\* log_level::Level::from_lit
LevelFromLit(literal) ==
    CASE literal = "error" -> Ok("Error")
      [] literal = "warn" -> Ok("Warn")
      [] literal = "info" -> Ok("Info")
      [] literal = "debug" -> Ok("Debug")
      [] literal = "trace" -> Ok("Trace")
      [] OTHER -> Err("level_unsupported")

\* impl Default for Level
LevelDefault == "Info"

\* One field of FunTimeArgs: #[darling(default)] when the key is absent,
\* otherwise the and_then function applied to the literal.
Field(literal, parsed, default) ==
    IF literal = "absent" THEN Ok(default) ELSE parsed

\* FunTimeArgs::from_list (derive(FromMeta)). Darling accumulates the errors
\* of all fields. The `level` field is compiled in only with the log feature;
\* without it the key `level` is an unknown field like any other.
FunTimeArgsFromList(raw, log) ==
    LET when == Field(raw.when, WhenFromLit(raw.when), WhenDefault)
        reporting == Field(raw.reporting, ReportingFromLit(raw.reporting, log),
                           ReportingDefault(log))
        level == IF log
                 THEN Field(raw.level, LevelFromLit(raw.level), LevelDefault)
                 ELSE Ok("NoLevel")
        errors ==
            ErrorOf(when) \cup ErrorOf(reporting) \cup ErrorOf(level)
            \cup (IF raw.unknown_key \/ (~log /\ raw.level # "absent")
                  THEN {"unknown_field"} ELSE {})
    IN [errors |-> errors,
        val |-> [message |-> raw.message, when |-> when.val,
                 give_back |-> raw.give_back, reporting |-> reporting.val,
                 level |-> level.val]]

\* No call of the generated function is running.
NoCall ==
    [active |-> FALSE, ip |-> 0, x |-> [moved |-> FALSE, value |-> 0],
     entry |-> 0, exit |-> "none", message |-> None, start |-> None,
     elapsed |-> None, return_value |-> None, result |-> None]

\* The value of `args` before it is assigned.
NoArgs ==
    [message |-> None, when |-> "Always", give_back |-> FALSE,
     reporting |-> "Println", level |-> "NoLevel"]

----------------------------------------------------------------------------
\* Code generation

T_Duration == <<"std::time::Duration">>
T_Unit == <<"()">>
PairType(a, b) == <<"(">> \o a \o <<",">> \o b \o <<")">>

\* let return_type = match item_fn.sig.output { .. }
return_type(output) == IF output.some THEN output.val ELSE T_Unit

\* Mutant: the timer is started after the body has run.
wrapped_block_TimerAfterBody(ty, block) ==
    << Stmt("let_return_value", "", <<>>, ty, block),
       Stmt("let_start", "", <<>>, <<>>, <<>>),
       Stmt("let_elapsed", "", <<>>, <<>>, <<>>) >>

\* let wrapped_block = quote! { .. }
wrapped_block(ty, block) ==
    << Stmt("let_start", "", <<>>, <<>>, <<>>),
       Stmt("let_return_value", "", <<>>, ty, block),
       Stmt("let_elapsed", "", <<>>, <<>>, <<>>) >>

\* let log_tokens = match args.level.0 { .. }
log_tokens(level) ==
    CASE level = "Error" -> "log::error!"
      [] level = "Warn" -> "log::warn!"
      [] level = "Info" -> "log::info!"
      [] level = "Debug" -> "log::debug!"
      [] level = "Trace" -> "log::trace!"
      [] OTHER -> "none"

\* let output_with_duration = match output { .. }
output_with_duration(output) ==
    IF output.some
    THEN Some(PairType(output.val, T_Duration))
    ELSE Some(T_Duration)

\* The tail expression of the give_back body: (return_value, elapsed)
give_back_tail == Stmt("tail_pair", "", <<>>, <<>>, <<>>)

\* The tail expression of the reporting body: return_value
reporting_tail == Stmt("tail_value", "", <<>>, <<>>, <<>>)

\* let message_statement = quote! { let .._message = format!(#message); }
message_statement(message) == Stmt("let_message", "", message, <<>>, <<>>)

\* Mutant: the start notification goes through the log macro of `level`
\* whatever the destination.
starting_statement_AlwaysMacro(reporting, macro) ==
    Stmt("notify", macro, <<"{message}">>, <<>>, <<>>)

\* let starting_statement = match args.reporting { .. }
starting_statement(reporting, macro) ==
    IF reporting = "Println"
    THEN Stmt("notify", "println!", <<"{message}">>, <<>>, <<>>)
    ELSE Stmt("notify", macro, <<"{message}">>, <<>>, <<>>)

\* let reporting_statement = match args.reporting { .. }
reporting_statement(reporting, macro) ==
    IF reporting = "Println"
    THEN Stmt("notify", "println!",
              <<"{message}", ": Done in ", "{elapsed}">>, <<>>, <<>>)
    ELSE Stmt("notify", macro,
              <<"{message}", ": Done in ", "{elapsed}">>, <<>>, <<>>)

\* Mutant: the message is formatted after the body has run.
tokens_MessageAtDone(a, fn) ==
    LET wrapped == wrapped_block(return_type(fn.output), fn.block)
    IN IF a.give_back
       THEN [fn EXCEPT !.output = output_with_duration(fn.output),
                       !.block = wrapped \o <<give_back_tail>>]
       ELSE LET message == IF a.message.some THEN a.message.val ELSE <<>>
                macro == log_tokens(a.level)
            IN [fn EXCEPT !.block =
                   <<starting_statement(a.reporting, macro)>>
                   \o wrapped
                   \o <<message_statement(message),
                        reporting_statement(a.reporting, macro),
                        reporting_tail>>]

\* let tokens = if args.give_back { .. } else { .. }
tokens(a, fn) ==
    LET wrapped == wrapped_block(return_type(fn.output), fn.block)
    IN IF a.give_back
       THEN [fn EXCEPT !.output = output_with_duration(fn.output),
                       !.block = wrapped \o <<give_back_tail>>]
       ELSE LET message == IF a.message.some THEN a.message.val ELSE <<>>
                macro == log_tokens(a.level)
            IN [fn EXCEPT !.block =
                   <<message_statement(message),
                     starting_statement(a.reporting, macro)>>
                   \o wrapped
                   \o <<reporting_statement(a.reporting, macro),
                        reporting_tail>>]

\* Mutant: the profile arm is matched before the give_back arm.
WhenArm_BypassFirst(a, dbg) ==
    CASE a.when = "Debug" /\ ~dbg -> "bypass"
      [] a.when = "Debug" /\ a.give_back -> "compile_error"
      [] OTHER -> "go_ahead"

\* Mutant: the profile arm is missing.
WhenArm_NoBypass(a, dbg) ==
    CASE a.when = "Debug" /\ a.give_back -> "compile_error"
      [] OTHER -> "go_ahead"

\* The arms of `match args.when` that end the expansion early.
WhenArm(a, dbg) ==
    CASE a.when = "Debug" /\ a.give_back -> "compile_error"
      [] a.when = "Debug" /\ ~dbg -> "bypass"
      [] OTHER -> "go_ahead"

\* if args.message.is_some() && args.give_back
MessageGiveBackClash(a) == a.message.some /\ a.give_back

----------------------------------------------------------------------------
\* One expansion of fun_time

Init ==
    /\ rawArgs \in RawArgs
    /\ item \in Items
    /\ debug_assertions \in BOOLEAN
    /\ feature_log \in BOOLEAN
    /\ pc = "parse_args"
    /\ args = NoArgs
    /\ diagnostics = {}
    /\ emitted = {}
    /\ call = NoCall
    /\ clock = 0
    /\ trace = <<>>
    /\ calls = 0

\* Mutant: the compile error is built but not returned.
Abort_NoReturn(errors) ==
    /\ diagnostics' = errors
    /\ pc' = "transform"
    /\ UNCHANGED <<args, emitted>>

\* return with a compile error
Abort(errors) ==
    /\ diagnostics' = errors
    /\ pc' = "done"
    /\ UNCHANGED <<args, emitted>>

\* parse_macro_input!(args as AttributeArgs); FunTimeArgs::from_list
ParseArgs ==
    /\ pc = "parse_args"
    /\ IF ~rawArgs.syntax_ok
       THEN Abort({"args_syntax"})
       ELSE LET parsed == FunTimeArgsFromList(rawArgs, feature_log)
            IN IF parsed.errors # {}
               THEN Abort(parsed.errors)
               ELSE /\ args' = parsed.val
                    /\ pc' = "check_message"
                    /\ UNCHANGED <<diagnostics, emitted>>
    /\ UNCHANGED <<inputVars, runVars>>

\* if args.message.is_some() && args.give_back { return compile_error }
CheckMessage ==
    /\ pc = "check_message"
    /\ IF MessageGiveBackClash(args)
       THEN Abort({"message_give_back"})
       ELSE /\ pc' = "parse_item"
            /\ UNCHANGED <<args, diagnostics, emitted>>
    /\ UNCHANGED <<inputVars, runVars>>

\* parse_macro_input!(item as syn::ItemFn)
ParseItem ==
    /\ pc = "parse_item"
    /\ IF ~item.is_fn
       THEN Abort({"item_not_fn"})
       ELSE /\ pc' = "match_when"
            /\ UNCHANGED <<args, diagnostics, emitted>>
    /\ UNCHANGED <<inputVars, runVars>>

\* match args.when { .. }
MatchWhen ==
    /\ pc = "match_when"
    /\ LET arm == WhenArm(args, debug_assertions)
       IN CASE arm = "compile_error" -> Abort({"give_back_when_debug"})
            [] arm = "bypass" ->
                 /\ emitted' = {item}
                 /\ pc' = "done"
                 /\ UNCHANGED <<args, diagnostics>>
            [] OTHER ->
                 /\ pc' = "transform"
                 /\ UNCHANGED <<args, diagnostics, emitted>>
    /\ UNCHANGED <<inputVars, runVars>>

\* The rest of fun_time: build the tokens and return them.
Transform ==
    /\ pc = "transform"
    /\ emitted' = {tokens(args, item)}
    /\ pc' = "done"
    /\ UNCHANGED <<args, diagnostics, inputVars, runVars>>

Expand == ParseArgs \/ CheckMessage \/ ParseItem \/ MatchWhen \/ Transform

----------------------------------------------------------------------------
\* Calls of the generated function

TheFn == CHOOSE fn \in emitted : TRUE

\* The type of the tail expression of a body, from the let bindings above it.
TailType(fn) ==
    LET last == fn.block[Len(fn.block)]
        bound == {i \in 1..Len(fn.block) : fn.block[i].op = "let_return_value"}
        ty == fn.block[CHOOSE i \in bound : TRUE].ty
    IN CASE last.op = "tail_pair" -> PairType(ty, T_Duration)
         [] last.op = "tail_value" -> ty
         [] OTHER -> return_type(fn.output)

\* rustc accepts the definition: the tail expression has the declared type.
Compiles(fn) == return_type(fn.output) = TailType(fn)

\* What the user's body evaluates to: an early `return` inside it yields
\* another value than running to its end.
BodyValue(ty, entry, exit) ==
    IF ty = T_Unit THEN <<"()">>
    ELSE IF exit = "return" THEN ToDecimal(entry) ELSE ToDecimal(entry + 1)

\* What the user's body does to the parameter it owns.
BodyEffect(x, effect) ==
    CASE effect = "move" -> [x EXCEPT !.moved = TRUE]
      [] effect = "modify" -> [x EXCEPT !.value = (x.value + 1) % (MaxValue + 1)]
      [] OTHER -> x

Effects == {"keep", "modify", "move"}
Exits == {"end", "return", "panic"}

Event(ev, macro, text) == [ev |-> ev, macro |-> macro, text |-> text]

\* println!/log!(fmt, message, elapsed) with the variables in scope.
RECURSIVE Interpolate(_, _)
Interpolate(fmt, c) ==
    IF fmt = <<>> THEN <<>>
    ELSE LET piece == Head(fmt)
             out == CASE piece = "{message}" -> c.message.val
                      [] piece = "{elapsed}" -> FormatElapsed(c.elapsed.val[1])
                      [] OTHER -> <<piece>>
         IN out \o Interpolate(Tail(fmt), c)

Current == TheFn.block[call.ip]

Running(op) ==
    /\ pc = "done"
    /\ call.active
    /\ Current.op = op

\* The build calls the function the macro returned.
Call ==
    /\ pc = "done"
    /\ emitted # {}
    /\ Compiles(TheFn)
    /\ ~call.active
    /\ calls < MaxCalls
    /\ \E v \in 0..MaxValue :
         call' = [NoCall EXCEPT !.active = TRUE, !.ip = 1, !.x.value = v,
                                !.entry = v]
    /\ calls' = calls + 1
    /\ trace' = <<>>
    /\ UNCHANGED <<inputVars, pc, args, diagnostics, emitted, clock>>

\* let super_secret_variable_that_does_not_clash_message = format!(#message);
ExecMessage ==
    /\ Running("let_message")
    /\ ~call.x.moved
    /\ call' = [call EXCEPT !.message = Some(Format(Current.fmt, call.x)),
                            !.ip = @ + 1]
    /\ trace' = Append(trace, Event("format", "", <<>>))
    /\ UNCHANGED <<inputVars, pc, args, diagnostics, emitted, clock, calls>>

\* println!(..) or log::<level>!(..)
ExecNotify ==
    /\ Running("notify")
    /\ call' = [call EXCEPT !.ip = @ + 1]
    /\ trace' = Append(trace, Event("notify", Current.macro,
                                    Interpolate(Current.fmt, call)))
    /\ UNCHANGED <<inputVars, pc, args, diagnostics, emitted, clock, calls>>

\* let super_secret_variable_that_does_not_clash_start = Instant::now();
ExecStart ==
    /\ Running("let_start")
    /\ call' = [call EXCEPT !.start = Some(<<clock>>), !.ip = @ + 1]
    /\ trace' = Append(trace, Event("now", "", <<>>))
    /\ UNCHANGED <<inputVars, pc, args, diagnostics, emitted, clock, calls>>

\* let return_value: #return_type = (|| { #block })();
\* A `return` in the block leaves the closure only; a panic unwinds the call.
ExecClosure ==
    /\ Running("let_return_value")
    /\ \E effect \in Effects, exit \in Exits, d \in 0..MaxBodyTime :
         /\ clock' = clock + d
         /\ IF exit = "panic"
            THEN /\ call' = [call EXCEPT !.active = FALSE, !.exit = exit,
                                         !.x = BodyEffect(@, effect)]
                 /\ trace' = trace \o <<Event("body", "", <<>>),
                                        Event("unwind", "", <<>>)>>
            ELSE /\ call' = [call EXCEPT
                                !.x = BodyEffect(@, effect),
                                !.exit = exit,
                                !.return_value =
                                    Some(BodyValue(Current.ty, call.entry, exit)),
                                !.ip = @ + 1]
                 /\ trace' = Append(trace, Event("body", "", <<>>))
    /\ UNCHANGED <<inputVars, pc, args, diagnostics, emitted, calls>>

\* let elapsed = super_secret_variable_that_does_not_clash_start.elapsed();
ExecElapsed ==
    /\ Running("let_elapsed")
    /\ call' = [call EXCEPT !.elapsed = Some(<<clock - call.start.val[1]>>),
                            !.ip = @ + 1]
    /\ trace' = Append(trace, Event("elapsed", "", <<>>))
    /\ UNCHANGED <<inputVars, pc, args, diagnostics, emitted, clock, calls>>

\* (return_value, elapsed)
ExecTailPair ==
    /\ Running("tail_pair")
    /\ call' = [call EXCEPT
                   !.result = Some(<<"(">> \o call.return_value.val \o <<",">>
                                   \o FormatElapsed(call.elapsed.val[1])
                                   \o <<")">>),
                   !.active = FALSE]
    /\ trace' = Append(trace, Event("return", "", <<>>))
    /\ UNCHANGED <<inputVars, pc, args, diagnostics, emitted, clock, calls>>

\* return_value
ExecTailValue ==
    /\ Running("tail_value")
    /\ call' = [call EXCEPT !.result = call.return_value, !.active = FALSE]
    /\ trace' = Append(trace, Event("return", "", <<>>))
    /\ UNCHANGED <<inputVars, pc, args, diagnostics, emitted, clock, calls>>

\* The block of a function emitted verbatim (quote! { #item_fn }): the user's
\* statements run as the function body itself.
ExecBlock ==
    /\ Running("block")
    /\ \E effect \in Effects, exit \in Exits, d \in 0..MaxBodyTime :
         /\ clock' = clock + d
         /\ call' = [call EXCEPT
                        !.x = BodyEffect(@, effect),
                        !.exit = exit,
                        !.active = FALSE,
                        !.result =
                            IF exit = "panic" THEN None
                            ELSE Some(BodyValue(return_type(TheFn.output),
                                                call.entry, exit))]
         /\ trace' = trace \o <<Event("body", "", <<>>),
                                Event(IF exit = "panic" THEN "unwind"
                                      ELSE "return", "", <<>>)>>
    /\ UNCHANGED <<inputVars, pc, args, diagnostics, emitted, calls>>

Run ==
    \/ Call
    \/ ExecMessage
    \/ ExecNotify
    \/ ExecStart
    \/ ExecClosure
    \/ ExecElapsed
    \/ ExecTailPair
    \/ ExecTailValue
    \/ ExecBlock

Next == Expand \/ Run

Spec == Init /\ [][Next]_vars

\* fun_time is a straight-line function: once invoked it runs to its return.
LiveSpec == Init /\ [][Next]_vars /\ WF_vars(Expand)

----------------------------------------------------------------------------
\* Vocabulary of the properties

IsPrefix(p, s) == Len(p) <= Len(s) /\ SubSeq(s, 1, Len(p)) = p

Kinds(t) == [i \in 1..Len(t) |-> t[i].ev]

Notifications(t) == SelectSeq(t, LAMBDA e : e.ev = "notify")

ValidLevels == {"trace", "debug", "info", "warn", "error"}

\* The three constraint rules, read off the arguments as written.
Rule1 == rawArgs.message.some /\ rawArgs.give_back
Rule2 == rawArgs.give_back /\ rawArgs.when = "debug"
Rule3 == rawArgs.reporting = "log" /\ ~feature_log

\* The arguments parse, unless for reporting=log without the log feature.
OtherArgsParse ==
    /\ rawArgs.syntax_ok
    /\ ~rawArgs.unknown_key
    /\ rawArgs.reporting \in {"absent", "println", "log"}
    /\ rawArgs.when \in {"absent", "always", "debug"}
    /\ rawArgs.level = "absent" \/ (feature_log /\ rawArgs.level \in ValidLevels)

\* A valid configuration on a function: it parses and breaks no rule.
ValidConfiguration ==
    /\ OtherArgsParse
    /\ ~Rule1
    /\ ~Rule2
    /\ ~Rule3
    /\ item.is_fn

Bypassed == rawArgs.when = "debug" /\ ~debug_assertions

\* The expansion is over and the function was rewritten to report.
Reporting == pc = "done" /\ ValidConfiguration /\ ~rawArgs.give_back /\ ~Bypassed

\* The running or last call came back to its caller.
Returned == calls > 0 /\ ~call.active /\ call.result.some

\* The message as the template renders it for the argument passed in.
MessageAtEntry ==
    Format(IF rawArgs.message.some THEN rawArgs.message.val ELSE <<>>,
           [moved |-> FALSE, value |-> call.entry])

----------------------------------------------------------------------------
\* C1: with give_back, whatever the original return type (none declared
\* included), the emitted function declares the pair (original or unit,
\* duration) and its body returns a value of that same pair type.
C1_GiveBackDeclaresAndReturnsPair ==
    \A fn \in emitted :
        args.give_back =>
            /\ fn.output = Some(PairType(return_type(item.output), T_Duration))
            /\ TailType(fn) = return_type(fn.output)

\* C2: a configuration with message and give_back, or with give_back and
\* when=debug, never has a function emitted and ends in a Diagnostic, in a
\* debug and in a non-debug profile alike.
C2_ExclusiveOptionsRejected ==
    (Rule1 \/ Rule2) =>
        /\ emitted = {}
        /\ pc = "done" => diagnostics # {}

C2_Witness ==
    /\ pc = "done"
    /\ Rule2 /\ ~Rule1
    /\ ~debug_assertions
    /\ diagnostics = {"give_back_when_debug"}

\* C3: every expansion reaches its end, and at its end exactly one of a
\* Diagnostic and a function definition has been produced; before its end
\* neither has.
C3_ExactlyOneOutcome ==
    /\ <>(pc = "done")
    /\ [](pc = "done" =>
            /\ (diagnostics # {}) # (emitted # {})
            /\ Cardinality(emitted) <= 1)
    /\ [](pc # "done" => diagnostics = {} /\ emitted = {})

C3_Witness ==
    /\ pc = "done"
    /\ diagnostics = {}
    /\ emitted = {item}
    /\ ~feature_log

\* C4: in a function rewritten to report, a call runs, in this order and
\* nothing else: message materialization, start notification, first
\* timestamp, the body (once), second timestamp, done notification, return.
\* A call that came back did all seven steps, also when the body left
\* through an early return, and hands back the body's value unchanged; the
\* one measurement it took is the time the body invocation took.
CallOrder ==
    <<"format", "notify", "now", "body", "elapsed", "notify", "return">>

C4_ReportingCallOrder ==
    (Reporting /\ calls > 0) =>
        /\ \/ IsPrefix(Kinds(trace), CallOrder)
           \/ /\ call.exit = "panic"
              /\ Kinds(trace) = SubSeq(CallOrder, 1, 4) \o <<"unwind">>
        /\ Returned =>
              /\ Kinds(trace) = CallOrder
              /\ Len(Notifications(trace)) = 2
              /\ trace[2].text = call.message.val
              /\ trace[6].text = call.message.val \o <<": Done in ">>
                                    \o FormatElapsed(call.elapsed.val[1])
              /\ call.elapsed.val[1] = clock - call.start.val[1]
              /\ call.result = Some(BodyValue(return_type(item.output),
                                              call.entry, call.exit))

C4_Witness ==
    /\ Reporting
    /\ Returned
    /\ call.exit = "return"
    /\ item.output.some
    /\ call.elapsed.val[1] > 0
    /\ Len(trace) = 7

\* C5: a valid configuration with when=debug in a build that is not a debug
\* build has the original function emitted unchanged, whatever message,
\* reporting and level are; a call of it notifies nothing and reads no clock.
C5_BypassEmitsOriginal ==
    (pc = "done" /\ ValidConfiguration /\ Bypassed) =>
        /\ diagnostics = {}
        /\ emitted = {item}
        /\ \A i \in 1..Len(trace) : trace[i].ev \in {"body", "return", "unwind"}
        /\ Returned =>
              /\ Kinds(trace) = <<"body", "return">>
              /\ call.result = Some(BodyValue(return_type(item.output),
                                              call.entry, call.exit))

C5_Witness ==
    /\ pc = "done"
    /\ ValidConfiguration
    /\ Bypassed
    /\ rawArgs.message.some
    /\ rawArgs.reporting = "log"
    /\ rawArgs.level = "warn"
    /\ Returned

\* C6: in reporting mode the template is evaluated once, as the first step
\* of the call, against the argument passed in ({x} by its default rendering,
\* {x:#?} by its alternate one); both notifications start with that string,
\* also when the body moved or changed the parameter. Without a message the
\* string is empty and nothing is rejected.
C6_MessageCapturedAtEntry ==
    (Reporting /\ calls > 0) =>
        /\ diagnostics = {}
        /\ \A i \in 1..Len(trace) :
              /\ trace[i].ev = "format" <=> i = 1
              /\ trace[i].ev = "notify" => IsPrefix(MessageAtEntry, trace[i].text)
        /\ Len(trace) >= 2 => trace[2].text = MessageAtEntry
        /\ (Len(trace) >= 1 /\ ~rawArgs.message.some) => call.message = Some(<<>>)
        /\ (Len(trace) >= 1 /\ rawArgs.message = Some(<<Lit("Value: "), Disp>>)
              /\ call.entry = 1)
             => call.message = Some(<<"Value: ", "1">>)
        /\ (Len(trace) >= 1 /\ rawArgs.message = Some(<<Lit("fun: "), Alt>>)
              /\ call.entry = 1)
             => call.message = Some(<<"fun: ", "value * 2 = ", "2">>)

C6_Witness ==
    /\ Reporting
    /\ Returned
    /\ call.x.moved
    /\ call.entry = 1
    /\ rawArgs.message = Some(<<Lit("fun: "), Alt>>)
    /\ Len(Notifications(trace)) = 2

\* C7: in reporting mode, for println and for log, the start notification
\* reads "Starting: " followed by the message, and the done notification
\* reads the message followed by ": Done in " and the elapsed time.
C7_NotificationFormats ==
    (Reporting /\ calls > 0) =>
        LET n == Notifications(trace)
        IN /\ Len(n) >= 1 => n[1].text = <<"Starting: ">> \o call.message.val
           /\ Len(n) >= 2 => n[2].text = call.message.val \o <<": Done in ">>
                                   \o FormatElapsed(call.elapsed.val[1])

\* The macro a notification goes through for the reporting literal written.
println_destination == \A i \in 1..Len(trace) :
    trace[i].ev = "notify" => trace[i].macro = "println!"

log_destination == \A i \in 1..Len(trace) :
    trace[i].ev = "notify" => trace[i].macro = log_tokens(args.level)

\* C8 as stated: `print` parses and selects the console, `log` is accepted
\* exactly with the logging capability, every other literal is rejected
\* with the Diagnostic that lists the valid literals (`println`, which the
\* statement does not name, is left out of "every other literal" here).
C8_PrintAndLogAccepted ==
    (pc # "parse_args" /\ rawArgs.syntax_ok) =>
        /\ rawArgs.reporting = "print" =>
              /\ "reporting_unsupported" \notin diagnostics
              /\ Reporting => println_destination
        /\ rawArgs.reporting = "log" =>
              ("reporting_unsupported" \in diagnostics <=> ~feature_log)
        /\ rawArgs.reporting \notin {"absent", "print", "log", "println"} =>
              "reporting_unsupported" \in diagnostics

\* C8 amended: the literals are `println` and `log`. `println` parses and
\* selects the console, `log` is accepted exactly with the logging
\* capability (and selects the log macro), every other literal, `print`
\* included, is rejected with the Diagnostic that lists the valid literals.
C8_PrintlnAndLogAccepted ==
    (pc # "parse_args" /\ rawArgs.syntax_ok) =>
        /\ rawArgs.reporting = "println" =>
              /\ "reporting_unsupported" \notin diagnostics
              /\ Reporting => println_destination
        /\ rawArgs.reporting = "log" =>
              /\ "reporting_unsupported" \in diagnostics <=> ~feature_log
              /\ Reporting => log_destination
        /\ rawArgs.reporting \notin {"absent", "println", "log"} =>
              /\ "reporting_unsupported" \in diagnostics
              /\ emitted = {}

C8_Witness ==
    /\ Reporting
    /\ Returned
    /\ rawArgs.reporting = "println"
    /\ feature_log
    /\ Len(Notifications(trace)) = 2

\* A valid level written next to reporting=println, in a configuration that
\* is otherwise valid.
LevelWithPrintln ==
    /\ rawArgs.syntax_ok
    /\ ~rawArgs.unknown_key
    /\ rawArgs.when \in {"absent", "always", "debug"}
    /\ rawArgs.level \in ValidLevels
    /\ rawArgs.reporting = "println"
    /\ ~Rule1
    /\ ~Rule2
    /\ item.is_fn

\* What the same configuration without `level` makes of the same item.
WithoutLevel ==
    LET a == FunTimeArgsFromList([rawArgs EXCEPT !.level = "absent"],
                                 feature_log).val
    IN IF WhenArm(a, debug_assertions) = "bypass" THEN item ELSE tokens(a, item)

\* C9 as stated: a valid level with reporting=println is accepted with or
\* without the logging capability: no Diagnostic, the function is emitted
\* and is the one emitted without `level`.
C9_LevelIgnoredWithPrintln ==
    (pc = "done" /\ LevelWithPrintln) =>
        /\ diagnostics = {}
        /\ emitted = {WithoutLevel}
        /\ println_destination

\* C9 amended: with the logging capability a valid level with
\* reporting=println, in an otherwise valid configuration on a function, is
\* accepted and ignored (the function emitted is the
\* one emitted without `level`, its notifications go through println!);
\* without the capability `level` is an unknown option: a Diagnostic and
\* no function.
C9_LevelIgnoredWithPrintlnUnderLog ==
    (pc = "done" /\ LevelWithPrintln) =>
        IF feature_log
        THEN /\ diagnostics = {}
             /\ emitted = {WithoutLevel}
             /\ println_destination
        ELSE /\ diagnostics = {"unknown_field"}
             /\ emitted = {}

C9_Witness ==
    /\ pc = "done"
    /\ LevelWithPrintln
    /\ feature_log
    /\ rawArgs.level = "debug"
    /\ ~rawArgs.give_back
    /\ ~Bypassed
    /\ Returned

\* C10 as stated: the rules apply in the order 1 (message with give_back),
\* 2 (give_back with when=debug), 3 (reporting=log without the logging
\* capability) and the first one violated decides the Diagnostic.
C10_RuleOrder123 ==
    (pc = "done" /\ OtherArgsParse /\ item.is_fn) =>
        /\ Rule1 => diagnostics = {"message_give_back"}
        /\ (~Rule1 /\ Rule2) => diagnostics = {"give_back_when_debug"}
        /\ (~Rule1 /\ ~Rule2 /\ Rule3) => diagnostics = {"reporting_unsupported"}

\* C10 amended: rule 3 is decided first, while the arguments are parsed,
\* then rule 1, then rule 2. When the other arguments parse and the item is
\* a function: a configuration violating rule 3 gets the reporting
\* Diagnostic whatever else it violates, one violating rules 1 and 2 but not
\* 3 gets the message/give_back Diagnostic, one violating rule 2 alone gets
\* the give_back/when=debug Diagnostic.
C10_RuleOrder312 ==
    (pc = "done" /\ OtherArgsParse /\ item.is_fn) =>
        /\ Rule3 => diagnostics = {"reporting_unsupported"}
        /\ (~Rule3 /\ Rule1) => diagnostics = {"message_give_back"}
        /\ (~Rule3 /\ ~Rule1 /\ Rule2) => diagnostics = {"give_back_when_debug"}

C10_Witness ==
    /\ pc = "done"
    /\ OtherArgsParse
    /\ item.is_fn
    /\ Rule1 /\ Rule2 /\ Rule3
    /\ diagnostics = {"reporting_unsupported"}

====
